---- MODULE Spec2Model ----
(***************************************************************************)
(* Grievance lifecycle backend: the HTTP handlers of registerRoutes and    *)
(* the insert schemas of shared/schema.ts, over the persistence gateway    *)
(* (storage), whose implementation is not part of the sources and is       *)
(* modelled from its contract.                                             *)
(*                                                                         *)
(* Under Spec each handler is one atomic action; under SpecConc the        *)
(* handlers of accept and of verifications yield at each await of a        *)
(* storage call, so that the storage calls of two requests interleave.     *)
(* served counts the write requests (POST, PATCH) and is capped by MaxWrites.  Request bodies are   *)
(* JSON values; a JSON/JavaScript value is the record [k, h, s]: k is its typeof, h is    *)
(* twice the number (so 1.5 is h = 3 and integers have an even h), s the   *)
(* string.  A nullable column holds <<>> (NULL) or <<v>>.                  *)
(***************************************************************************)
EXTENDS Integers, Sequences, FiniteSets, TLC

VARIABLES grievances, verifications, users, now, last, served,
          inflight, overlapped

vars == <<grievances, verifications, users, now, last, served, inflight, overlapped>>
db == <<grievances, verifications, users>>
(* The requests suspended at an await, in order of arrival, and whether a  *)
(* request was ever started while another one was suspended.               *)
conc == <<inflight, overlapped>>

(* ---- bounds ---- *)
MaxGrievances == 2
MaxNow == 1
MaxWrites == 4
MaxInflight == 2

(* ---- JavaScript values ---- *)
Undef == [k |-> "undefined", h |-> 0, s |-> ""]
Num(h) == [k |-> "number", h |-> h, s |-> ""]
Str(s) == [k |-> "string", h |-> 0, s |-> s]
IdVal(i) == [k |-> "string", h |-> i, s |-> "id"]

Falsy(v) ==
  \/ v.k = "undefined"
  \/ v.k = "number" /\ v.h = 0
  \/ v.k = "string" /\ v.s = "" /\ v.h = 0

TypeOf(v) == v.k

IsInteger(v) == v.k = "number" /\ v.h % 2 = 0

IntOf(v) == v.h \div 2

Null == <<>>
Some(v) == <<v>>

(* ---- time ---- *)
MsPerDay == 24 * 60 * 60 * 1000
VerificationDays == 7

(* ---- schema: users ---- *)
UsernameUnique(us, name) == \A i \in 1..Len(us) : us[i].username # name

(* ---- schema: grievances ---- *)
(* The column without its unique constraint. *)
GrievanceNumberUnique_NoConstraint(gs, n) == TRUE

GrievanceNumberUnique(gs, n) == \A i \in 1..Len(gs) : gs[i].grievanceNumber # n

Categories ==
  { "Water Supply", "Road & Infrastructure", "Electricity",
    "Sanitation & Waste Management", "Healthcare", "Education",
    "Agriculture Support", "Social Welfare Schemes", "Other" }

(* createInsertSchema(grievances).omit({...}).extend({...}): the keys that  *)
(* survive parsing.  status, assignedTo, resolvedAt, verificationDeadline   *)
(* and the other omitted keys are stripped; resolutionTimeline is not in    *)
(* the omit list and stays.                                                 *)
GrievanceSchemaOk(b) ==
  /\ b.title.k = "string" /\ Len(b.title.s) >= 10
  /\ b.description.k = "string" /\ Len(b.description.s) >= 50
  /\ b.category.k = "string" /\ b.category.s \in Categories
  /\ b.villageName.k = "string"
  /\ b.resolutionTimeline.k = "undefined" \/ IsInteger(b.resolutionTimeline)

(* The omit list without status: the client's status survives parsing. *)
GrievanceSchemaData_KeepsStatus(b) ==
  [ title |-> b.title.s,
    category |-> b.category.s,
    resolutionTimeline |->
      IF b.resolutionTimeline.k = "undefined" THEN Null
      ELSE Some(IntOf(b.resolutionTimeline)),
    status |-> IF b.status.k = "undefined" THEN Null ELSE Some(b.status.s),
    assignedTo |-> Null,
    resolvedAt |-> Null,
    verificationDeadline |-> Null ]

GrievanceSchemaData(b) ==
  [ title |-> b.title.s,
    category |-> b.category.s,
    resolutionTimeline |->
      IF b.resolutionTimeline.k = "undefined" THEN Null
      ELSE Some(IntOf(b.resolutionTimeline)),
    status |-> Null,
    assignedTo |-> Null,
    resolvedAt |-> Null,
    verificationDeadline |-> Null ]

(* status: text("status").notNull().default("pending") *)
StatusDefault == "pending"

(* ---- schema: verifications ---- *)
VerificationSchemaOk(b) ==
  /\ b.grievanceId.k = "string"
  /\ b.verificationType.k = "string" /\ b.verificationType.s \in {"verify", "dispute"}
  /\ b.status.k = "string" /\ b.status.s \in {"verified", "disputed"}

GrievanceExists(gs, id) == id \in 1..Len(gs)

(* ---- storage (persistence gateway) ---- *)
getUserByUsername(us, name) ==
  IF UsernameUnique(us, name) THEN 0
  ELSE CHOOSE i \in 1..Len(us) : us[i].username = name

createUser(us, name, role) == Append(us, [username |-> name, role |-> role])

getAllGrievances(gs) == gs

getGrievance(gs, id) == IF GrievanceExists(gs, id) THEN Some(gs[id]) ELSE Null

createGrievance(data, ownerId, n) ==
  [ grievanceNumber |-> n,
    userId |-> ownerId,
    title |-> data.title,
    category |-> data.category,
    status |-> IF data.status = Null THEN StatusDefault ELSE data.status[1],
    assignedTo |-> data.assignedTo,
    resolutionTimeline |-> data.resolutionTimeline,
    resolvedAt |-> data.resolvedAt,
    verificationDeadline |-> data.verificationDeadline ]

acceptGrievance(g, officerId, timelineDays) ==
  [g EXCEPT !.assignedTo = Some(officerId),
            !.resolutionTimeline = Some(timelineDays),
            !.status = "in_progress"]

(* updates is a sequence of <<column, value>> pairs, applied in order. *)
RECURSIVE ApplyUpdates(_, _)
ApplyUpdates(g, updates) ==
  IF updates = <<>> THEN g
  ELSE ApplyUpdates([g EXCEPT ![updates[1][1]] = updates[1][2]], Tail(updates))

updateGrievanceStatus(g, status, updates) ==
  ApplyUpdates([g EXCEPT !.status = status], updates)

createVerification(data, verifierId) ==
  [ grievanceId |-> data.grievanceId.h,
    userId |-> verifierId,
    verificationType |-> data.verificationType.s,
    status |-> data.status.s ]

(* ---- responses ---- *)
NoBody == <<>>
Response(op, code, body) == [op |-> op, code |-> code, body |-> body]

Init ==
  /\ grievances = <<>>
  /\ verifications = <<>>
  /\ users = <<>>
  /\ now = 0
  /\ last = Response("none", 0, NoBody)
  /\ served = 0
  /\ inflight = <<>>
  /\ overlapped = FALSE

(* ---- request inputs ---- *)
NoSuchId == MaxGrievances + 1
ReqIds == (1..MaxGrievances) \cup {NoSuchId}
(* Candidates of the number generator: a fresh number or one already taken. *)
GrievanceNumbers(gs) == {1, Len(gs) + 1}

GoodTitle == "No water supply"
GoodDescription == "The hand pump near the school has been dry for over two weeks"

ValidCreate ==
  [ fullName |-> Str("A B"),
    mobileNumber |-> Str("+911234567890"),
    title |-> Str(GoodTitle),
    description |-> Str(GoodDescription),
    category |-> Str("Water Supply"),
    villageName |-> Str("Demo Village"),
    resolutionTimeline |-> Undef,
    status |-> Undef,
    assignedTo |-> Undef,
    resolvedAt |-> Undef,
    verificationDeadline |-> Undef ]

(* The valid request of the end-to-end scenario and its one-field variants. *)
CreateBodies ==
  { ValidCreate,
    [ValidCreate EXCEPT !.fullName = Undef],
    [ValidCreate EXCEPT !.mobileNumber = Str("")],
    [ValidCreate EXCEPT !.title = Str("Too short")],
    [ValidCreate EXCEPT !.description = Str("It broke")],
    [ValidCreate EXCEPT !.category = Str("Potholes")],
    [ValidCreate EXCEPT !.title = Str("Too short"), !.fullName = Undef],
    [ValidCreate EXCEPT !.resolutionTimeline = Str("7")],
    [ValidCreate EXCEPT !.resolutionTimeline = Num(14)],
    [ValidCreate EXCEPT !.status = Str("resolved"), !.assignedTo = Str("someone"),
                        !.resolvedAt = Str("2024-01-01T00:00:00Z"),
                        !.verificationDeadline = Str("2024-01-08T00:00:00Z")] }

AcceptBodies ==
  [ resolutionTimeline : {Undef, Num(0), Num(-2), Num(3), Num(14), Str("7")} ]

StatusBodies ==
  [ status : {Undef, Str(""), Str("resolved"), Str("pending"), Str("in_progress"),
              Str("pending_verification")} ]

VerificationBodies ==
  [ grievanceId : {Undef} \cup {IdVal(i) : i \in ReqIds},
    verificationType : {Str("verify"), Str("dispute"), Str("approve")},
    status : {Str("verified"), Str("disputed")} ]

(* ---- handlers ---- *)

(* if (!grievance) return res.status(404) ...; res.json(grievance) *)
(* The handler without its not-found branch. *)
FoundCode_AlwaysOk(row) == 200

FoundCode(row) == IF row = Null THEN 404 ELSE 200

(* GET /api/grievances *)
ListAll ==
  /\ last' = Response("listAll", 200, Some(getAllGrievances(grievances)))
  /\ UNCHANGED <<db, now, served, conc>>

(* GET /api/grievances/assigned *)
(* The filter with in_progress forgotten. *)
AssignableStatus_PendingOnly(g) == g.status = "pending"

AssignableStatus(g) == g.status = "pending" \/ g.status = "in_progress"

ListAssigned ==
  /\ last' = Response("listAssigned", 200,
                       Some(SelectSeq(getAllGrievances(grievances), AssignableStatus)))
  /\ UNCHANGED <<db, now, served, conc>>

(* GET /api/grievances/:id *)
GetById(id) ==
  LET row == getGrievance(grievances, id)
  IN /\ last' = Response("getById", FoundCode(row), row)
     /\ UNCHANGED <<db, now, served, conc>>

(* POST /api/grievances *)
(* The check with the mobile number forgotten. *)
ContactMissing_NameOnly(b) == Falsy(b.fullName)

ContactMissing(b) == Falsy(b.fullName) \/ Falsy(b.mobileNumber)

Create(b) ==
  /\ UNCHANGED <<verifications, now>>
  /\ IF ~GrievanceSchemaOk(b)
     THEN /\ last' = Response("create", 400, NoBody)
          /\ UNCHANGED <<grievances, users>>
     ELSE IF ContactMissing(b)
     THEN /\ last' = Response("create", 400, NoBody)
          /\ UNCHANGED <<grievances, users>>
     ELSE
       LET found == getUserByUsername(users, b.mobileNumber.s)
           us2 == IF found = 0 THEN createUser(users, b.mobileNumber.s, "citizen")
                  ELSE users
           ownerId == getUserByUsername(us2, b.mobileNumber.s)
       IN /\ Len(grievances) < MaxGrievances
          /\ users' = us2
          /\ \E n \in GrievanceNumbers(grievances) :
               IF GrievanceNumberUnique(grievances, n)
               THEN LET g == createGrievance(GrievanceSchemaData(b), ownerId, n)
                    IN /\ grievances' = Append(grievances, g)
                       /\ last' = Response("create", 201, Some(g))
               ELSE /\ UNCHANGED grievances
                    /\ last' = Response("create", 500, NoBody)

(* POST /api/grievances/:id/accept *)
TimelineRejected(v) == Falsy(v) \/ TypeOf(v) # "number"

Accept(id, b) ==
  /\ UNCHANGED <<verifications, now>>
  /\ IF TimelineRejected(b.resolutionTimeline)
     THEN /\ last' = Response("accept", 400, NoBody)
          /\ UNCHANGED <<grievances, users>>
     ELSE
       LET found == getUserByUsername(users, "panchayat-officer")
           us2 == IF found = 0 THEN createUser(users, "panchayat-officer", "official")
                  ELSE users
           officerId == getUserByUsername(us2, "panchayat-officer")
       IN /\ users' = us2
          /\ IF ~IsInteger(b.resolutionTimeline)
             THEN /\ last' = Response("accept", 500, NoBody)
                  /\ UNCHANGED grievances
             ELSE
               LET row == IF GrievanceExists(grievances, id)
                          THEN Some(acceptGrievance(grievances[id], officerId,
                                                    IntOf(b.resolutionTimeline)))
                          ELSE Null
               IN /\ grievances' = IF row = Null THEN grievances
                                   ELSE [grievances EXCEPT ![id] = row[1]]
                  /\ last' = Response("accept", FoundCode(row), row)

(* PATCH /api/grievances/:id/status *)
StoredStatus(status) == IF status = "resolved" THEN "pending_verification" ELSE status

(* The rewrite of "resolved" forgotten: the requested status is kept. *)
ResolvedUpdate_KeepsResolved(status, t1, t2) ==
  IF status = "resolved"
  THEN << <<"resolvedAt", Some(t1)>>,
          <<"verificationDeadline", Some(t2 + VerificationDays * MsPerDay)>>,
          <<"status", "resolved">> >>
  ELSE <<>>

(* t1 and t2 are the two readings of the clock, new Date() twice. *)
ResolvedUpdate(status, t1, t2) ==
  IF status = "resolved"
  THEN << <<"resolvedAt", Some(t1)>>,
          <<"verificationDeadline", Some(t2 + VerificationDays * MsPerDay)>>,
          <<"status", "pending_verification">> >>
  ELSE <<>>

(* The clock may move on by a millisecond between two readings. *)
ClockReadings(status) ==
  IF status = "resolved" /\ now < MaxNow THEN {now, now + 1} ELSE {now}

UpdateStatus(id, b) ==
  /\ UNCHANGED <<verifications, users>>
  /\ IF Falsy(b.status)
     THEN /\ last' = Response("updateStatus", 400, NoBody)
          /\ UNCHANGED <<grievances, now>>
     ELSE \E t2 \in ClockReadings(b.status.s) :
       LET updates == ResolvedUpdate(b.status.s, now, t2)
           row == IF GrievanceExists(grievances, id)
                  THEN Some(updateGrievanceStatus(grievances[id],
                                                  StoredStatus(b.status.s), updates))
                  ELSE Null
       IN /\ now' = t2
          /\ grievances' = IF row = Null THEN grievances
                           ELSE [grievances EXCEPT ![id] = row[1]]
          /\ last' = Response("updateStatus", FoundCode(row), row)

(* POST /api/verifications *)
(* Only the verificationType looked at. *)
VerificationOutcome_TypeOnly(type, status) ==
  IF type = "verify" THEN Some("resolved") ELSE Some("in_progress")

(* The dispute branch forgotten: a dispute re-opens nothing. *)
VerificationOutcome_NeverReopens(type, status) ==
  IF type = "verify" /\ status = "verified" THEN Some("resolved") ELSE Null

VerificationOutcome(type, status) ==
  IF type = "verify" /\ status = "verified" THEN Some("resolved")
  ELSE IF type = "dispute" /\ status = "disputed" THEN Some("in_progress")
  ELSE Null

(* The extra fields passed with the status of a verification outcome:     *)
(* updateGrievanceStatus(grievanceId, status) is called with none.        *)
(* The re-opening that also clears the assignment. *)
OutcomeUpdates_ResetsAssignee(status) ==
  IF status = "in_progress"
  THEN << <<"assignedTo", Null>>, <<"resolutionTimeline", Null>> >>
  ELSE <<>>

OutcomeUpdates(status) == <<>>

(* The handler keeping one verification per grievance: an earlier row of  *)
(* the same grievance is replaced instead of a new row being added.       *)
RecordVerification_Replaces(b) ==
  /\ UNCHANGED now
  /\ IF ~VerificationSchemaOk(b) \/ ~GrievanceExists(grievances, b.grievanceId.h)
     THEN /\ last' = Response("recordVerification", 400, NoBody)
          /\ UNCHANGED db
     ELSE
       LET v == createVerification(b, 1)
           id == b.grievanceId.h
           outcome == VerificationOutcome(b.verificationType.s, b.status.s)
       IN /\ UNCHANGED users
          /\ verifications' =
               Append(SelectSeq(verifications, LAMBDA w : w.grievanceId # id), v)
          /\ grievances' =
               IF outcome = Null THEN grievances
               ELSE [grievances EXCEPT ![id] =
                       updateGrievanceStatus(@, outcome[1], <<>>)]
          /\ last' = Response("recordVerification", 201, Some(v))

RecordVerification(b) ==
  /\ UNCHANGED now
  /\ IF ~VerificationSchemaOk(b)
     THEN /\ last' = Response("recordVerification", 400, NoBody)
          /\ UNCHANGED db
     ELSE
       LET found == getUserByUsername(users, "community-verifier")
           us2 == IF found = 0 THEN createUser(users, "community-verifier", "citizen")
                  ELSE users
           verifierId == getUserByUsername(us2, "community-verifier")
           id == b.grievanceId.h
           outcome == VerificationOutcome(b.verificationType.s, b.status.s)
       IN /\ users' = us2
          /\ IF ~GrievanceExists(grievances, id)
             THEN /\ last' = Response("recordVerification", 500, NoBody)
                  /\ UNCHANGED <<grievances, verifications>>
             ELSE LET v == createVerification(b, verifierId)
                  IN /\ verifications' = Append(verifications, v)
                     /\ grievances' =
                          IF outcome = Null THEN grievances
                          ELSE [grievances EXCEPT ![id] =
                                  updateGrievanceStatus(@, outcome[1],
                                                        OutcomeUpdates(outcome[1]))]
                     /\ last' = Response("recordVerification", 201, Some(v))

Serve(handler) ==
  /\ served < MaxWrites
  /\ served' = served + 1
  /\ handler
  /\ UNCHANGED conc

Next ==
  \/ ListAll
  \/ ListAssigned
  \/ \E id \in ReqIds : GetById(id)
  \/ \E b \in CreateBodies : Serve(Create(b))
  \/ \E id \in ReqIds, b \in AcceptBodies : Serve(Accept(id, b))
  \/ \E id \in ReqIds, b \in StatusBodies : Serve(UpdateStatus(id, b))
  \/ \E b \in VerificationBodies : Serve(RecordVerification(b))

Spec == Init /\ [][Next]_vars

(* ---- interleaved handlers ---- *)
(* A handler runs without interruption up to an await; each awaited        *)
(* storage call is one step on the database.  A suspended request is the   *)
(* record [op, id, b, pc, userId]: pc names the storage call it awaits.    *)

RemoveAt(s, k) == SubSeq(s, 1, k - 1) \o SubSeq(s, k + 1, Len(s))

DefaultUsername(op) ==
  IF op = "accept" THEN "panchayat-officer" ELSE "community-verifier"
DefaultRole(op) == IF op = "accept" THEN "official" ELSE "citizen"
AfterUser(op) == IF op = "accept" THEN "acceptGrievance" ELSE "createVerification"

ConcAcceptBodies == { [resolutionTimeline |-> Num(14)] }
ConcStatusBodies == [ status : {Str("resolved"), Str("in_progress")} ]
ConcVerificationBodies ==
  { [grievanceId |-> IdVal(i), verificationType |-> Str(t[1]), status |-> Str(t[2])] :
      i \in ReqIds, t \in { <<"verify", "verified">>, <<"dispute", "disputed">> } }

(* A request arrives: its handler runs to the answer of its first await,   *)
(* storage.getUserByUsername, or answers at once when the body is invalid. *)
Arrive(op, id, b, invalid) ==
  /\ served < MaxWrites
  /\ served' = served + 1
  /\ UNCHANGED <<db, now>>
  /\ overlapped' = (overlapped \/ inflight # <<>>)
  /\ IF invalid
     THEN /\ last' = Response(op, 400, NoBody)
          /\ UNCHANGED inflight
     ELSE LET found == getUserByUsername(users, DefaultUsername(op))
          IN /\ Len(inflight) < MaxInflight
             /\ inflight' = Append(inflight,
                   [op |-> op, id |-> id, b |-> b, userId |-> found,
                    pc |-> IF found = 0 THEN "createUser" ELSE AfterUser(op)])
             /\ UNCHANGED last

ArriveAccept(id, b) == Arrive("accept", id, b, TimelineRejected(b.resolutionTimeline))

ArriveVerification(b) ==
  Arrive("recordVerification", b.grievanceId.h, b, ~VerificationSchemaOk(b))

(* await storage.createUser(...): the insert fails on users.username unique. *)
StepCreateUser(k) ==
  LET r == inflight[k]
  IN /\ r.pc = "createUser"
     /\ UNCHANGED <<grievances, verifications, now, served, overlapped>>
     /\ IF UsernameUnique(users, DefaultUsername(r.op))
        THEN /\ users' = createUser(users, DefaultUsername(r.op), DefaultRole(r.op))
             /\ inflight' = [inflight EXCEPT ![k].pc = AfterUser(r.op),
                                             ![k].userId = Len(users) + 1]
             /\ UNCHANGED last
        ELSE /\ UNCHANGED users
             /\ inflight' = RemoveAt(inflight, k)
             /\ last' = Response(r.op, 500, NoBody)

(* await storage.acceptGrievance(id, officer.id, resolutionTimeline) *)
StepAcceptGrievance(k) ==
  LET r == inflight[k]
  IN /\ r.pc = "acceptGrievance"
     /\ UNCHANGED <<verifications, users, now, served, overlapped>>
     /\ inflight' = RemoveAt(inflight, k)
     /\ IF ~IsInteger(r.b.resolutionTimeline)
        THEN /\ last' = Response("accept", 500, NoBody)
             /\ UNCHANGED grievances
        ELSE LET row == IF GrievanceExists(grievances, r.id)
                        THEN Some(acceptGrievance(grievances[r.id], r.userId,
                                                  IntOf(r.b.resolutionTimeline)))
                        ELSE Null
             IN /\ grievances' = IF row = Null THEN grievances
                                 ELSE [grievances EXCEPT ![r.id] = row[1]]
                /\ last' = Response("accept", FoundCode(row), row)

(* await storage.createVerification({...validatedData, userId}) *)
StepCreateVerification(k) ==
  LET r == inflight[k]
      v == createVerification(r.b, r.userId)
      outcome == VerificationOutcome(r.b.verificationType.s, r.b.status.s)
  IN /\ r.pc = "createVerification"
     /\ UNCHANGED <<grievances, users, now, served, overlapped>>
     /\ IF ~GrievanceExists(grievances, r.id)
        THEN /\ UNCHANGED verifications
             /\ inflight' = RemoveAt(inflight, k)
             /\ last' = Response("recordVerification", 500, NoBody)
        ELSE /\ verifications' = Append(verifications, v)
             /\ IF outcome = Null
                THEN /\ inflight' = RemoveAt(inflight, k)
                     /\ last' = Response("recordVerification", 201, Some(v))
                ELSE /\ inflight' = [inflight EXCEPT ![k].pc = "updateGrievanceStatus"]
                     /\ UNCHANGED last

(* await storage.updateGrievanceStatus(grievanceId, status); res.status(201) *)
StepUpdateGrievanceStatus(k) ==
  LET r == inflight[k]
      v == createVerification(r.b, r.userId)
      outcome == VerificationOutcome(r.b.verificationType.s, r.b.status.s)
  IN /\ r.pc = "updateGrievanceStatus"
     /\ UNCHANGED <<verifications, users, now, served, overlapped>>
     /\ inflight' = RemoveAt(inflight, k)
     /\ grievances' = [grievances EXCEPT ![r.id] =
                         updateGrievanceStatus(@, outcome[1], OutcomeUpdates(outcome[1]))]
     /\ last' = Response("recordVerification", 201, Some(v))

(* A handler with a single storage call, started while others may be suspended. *)
ServeBetween(handler) ==
  /\ served < MaxWrites
  /\ served' = served + 1
  /\ handler
  /\ UNCHANGED inflight
  /\ overlapped' = (overlapped \/ inflight # <<>>)

NextConc ==
  \/ ServeBetween(Create(ValidCreate))
  \/ \E id \in ReqIds, b \in ConcStatusBodies : ServeBetween(UpdateStatus(id, b))
  \/ \E id \in ReqIds, b \in ConcAcceptBodies : ArriveAccept(id, b)
  \/ \E b \in ConcVerificationBodies : ArriveVerification(b)
  \/ \E k \in 1..Len(inflight) : StepCreateUser(k)
  \/ \E k \in 1..Len(inflight) : StepAcceptGrievance(k)
  \/ \E k \in 1..Len(inflight) : StepCreateVerification(k)
  \/ \E k \in 1..Len(inflight) : StepUpdateGrievanceStatus(k)

SpecConc == Init /\ [][NextConc]_vars

(* ======================= lifecycle properties ======================= *)

Ids == 1..Len(grievances)
StatusOf(i) == grievances[i].status
ResolveRequest == [status |-> Str("resolved")]
AcceptSeven == [resolutionTimeline |-> Num(14)]
VerifyRequest(i) ==
  [grievanceId |-> IdVal(i), verificationType |-> Str("verify"),
   status |-> Str("verified")]
HasVerification(i, type, status) ==
  \E k \in 1..Len(verifications) :
    /\ verifications[k].grievanceId = i
    /\ verifications[k].verificationType = type
    /\ verifications[k].status = status

(* C1: no lifecycle state is skipped: a grievance enters                  *)
(* pending_verification only from in_progress, and a pending grievance    *)
(* moves nowhere but to in_progress.                                      *)
C1_NoStateSkipped ==
  [][\A i \in Ids :
       /\ (grievances'[i].status = "pending_verification"
             /\ StatusOf(i) # "pending_verification")
          => StatusOf(i) = "in_progress"
       /\ StatusOf(i) = "pending"
          => grievances'[i].status \in {"pending", "in_progress"}]_vars

(* C2: resolved is terminal and the only status changes ever taken are    *)
(* pending->in_progress, in_progress->pending_verification,               *)
(* pending_verification->resolved and pending_verification->in_progress.  *)
LifecycleEdges ==
  { <<"pending", "in_progress">>,
    <<"in_progress", "pending_verification">>,
    <<"pending_verification", "resolved">>,
    <<"pending_verification", "in_progress">> }

C2_ResolvedTerminal ==
  [][\A i \in Ids :
       /\ StatusOf(i) = "resolved" => grievances'[i].status = "resolved"
       /\ grievances'[i].status # StatusOf(i)
          => <<StatusOf(i), grievances'[i].status>> \in LifecycleEdges]_vars

(* C3: a recorded verification (201) of an existing grievance is appended *)
(* to the verifications, and the grievance's status becomes resolved for  *)
(* (verify, verified), in_progress for (dispute, disputed) and stays as   *)
(* it was for the two mixed pairs; no other grievance changes.            *)
C3_ExpectedStatus(v, old) ==
  IF v.verificationType = "verify" /\ v.status = "verified" THEN "resolved"
  ELSE IF v.verificationType = "dispute" /\ v.status = "disputed" THEN "in_progress"
  ELSE old

C3_VerificationOutcome ==
  [][(served' # served /\ last'.op = "recordVerification" /\ last'.code = 201)
     => LET v == last'.body[1]
        IN /\ v.grievanceId \in Ids
           /\ verifications' = Append(verifications, v)
           /\ Len(grievances') = Len(grievances)
           /\ \A i \in Ids :
                grievances'[i] =
                  IF i = v.grievanceId
                  THEN [grievances[i] EXCEPT
                          !.status = C3_ExpectedStatus(v, grievances[i].status)]
                  ELSE grievances[i]]_vars

C3_Witness ==
  /\ last.op = "recordVerification" /\ last.code = 201
  /\ last.body[1].verificationType = "dispute"
  /\ last.body[1].status = "verified"
  /\ verifications # <<>>
  /\ verifications[Len(verifications)] = last.body[1]
  /\ StatusOf(last.body[1].grievanceId) = "pending_verification"

(* C4: updateStatus(id, "resolved") on an existing grievance stores       *)
(* pending_verification, never resolved, stamps resolvedAt with the       *)
(* current time and sets verificationDeadline to resolvedAt + 7 days      *)
(* exactly.                                                               *)
C4_ResolveStamps ==
  [][\A i \in Ids :
       (last'.op = "updateStatus" /\ UpdateStatus(i, ResolveRequest))
       => /\ grievances'[i].status = "pending_verification"
          /\ grievances'[i].resolvedAt # Null
          /\ grievances'[i].resolvedAt[1] \in now..now'
          /\ grievances'[i].verificationDeadline =
               Some(grievances'[i].resolvedAt[1] + 7 * MsPerDay)]_vars

(* C5: the end-to-end lifecycle, step by step: a created grievance is     *)
(* answered 201 with status pending; accept with resolutionTimeline 7 is  *)
(* answered 200 with status in_progress; updateStatus "resolved" is       *)
(* answered 200 with status pending_verification; recordVerification      *)
(* (verify, verified) is answered 201 and leaves the grievance resolved;  *)
(* getById then answers 200 with the stored grievance.                    *)
C5_EndToEnd ==
  [][/\ (last'.op = "create" /\ last'.code = 201)
        => /\ last'.body[1].status = "pending"
           /\ grievances' = Append(grievances, last'.body[1])
     /\ last'.op = "accept"
        => \A i \in Ids :
             Accept(i, AcceptSeven)
             => /\ last'.code = 200
                /\ last'.body[1].status = "in_progress"
                /\ last'.body[1].resolutionTimeline = Some(7)
                /\ grievances'[i] = last'.body[1]
     /\ last'.op = "updateStatus"
        => \A i \in Ids :
             UpdateStatus(i, ResolveRequest)
             => /\ last'.code = 200
                /\ last'.body[1].status = "pending_verification"
                /\ grievances'[i] = last'.body[1]
     /\ last'.op = "recordVerification"
        => \A i \in Ids :
             RecordVerification(VerifyRequest(i))
             => /\ last'.code = 201
                /\ grievances'[i].status = "resolved"
     /\ last'.op = "getById"
        => \A i \in Ids :
             GetById(i)
             => /\ last'.code = 200
                /\ last'.body = Some(grievances[i])]_vars

C5_Witness ==
  /\ last.op = "getById" /\ last.code = 200
  /\ last.body[1].status = "resolved"
  /\ last.body[1].assignedTo # Null
  /\ last.body[1].resolutionTimeline = Some(7)
  /\ last.body[1].resolvedAt # Null
  /\ \E i \in Ids : grievances[i] = last.body[1] /\ HasVerification(i, "verify", "verified")
  /\ Len(verifications) = 1
  /\ served = 4

(* C6: assignedTo and resolutionTimeline are both unset or both set, in   *)
(* every reachable state and for every grievance.                         *)
C6_AssignedWithTimeline ==
  \A i \in Ids :
    (grievances[i].assignedTo = Null) <=> (grievances[i].resolutionTimeline = Null)

(* C7: any two distinct grievances have different grievanceNumbers, and   *)
(* no request changes the grievanceNumber of an existing grievance.       *)
C7_NumberUniqueImmutable ==
  [][/\ \A i, j \in 1..Len(grievances') :
          i # j => grievances'[i].grievanceNumber # grievances'[j].grievanceNumber
     /\ Len(grievances') >= Len(grievances)
     /\ \A i \in Ids :
          grievances'[i].grievanceNumber = grievances[i].grievanceNumber]_vars

C7_Witness ==
  /\ Len(grievances) = 2
  /\ grievances[1].grievanceNumber # grievances[2].grievanceNumber
  /\ grievances[1].status = "in_progress"
  /\ grievances[1].assignedTo # Null
  /\ grievances[2].status = "pending_verification"

(* C8: accept with a resolutionTimeline that is not a positive integer    *)
(* (missing, 0, negative, non-integer, a string) is answered 400 and      *)
(* makes no persistence call: users and grievances stay as they were.     *)
PositiveInteger(v) == v.k = "number" /\ v.h > 0 /\ v.h % 2 = 0

C8_TimelinePositiveInteger ==
  [][\A id \in ReqIds, b \in AcceptBodies :
       (last'.op = "accept" /\ ~PositiveInteger(b.resolutionTimeline) /\ Accept(id, b))
       => (last'.code = 400 /\ UNCHANGED db)]_vars

C10_BadCreate(b) ==
  \/ b.title.k # "string" \/ Len(b.title.s) < 10
  \/ b.description.k # "string" \/ Len(b.description.s) < 50
  \/ b.category.s \notin Categories
  \/ b.resolutionTimeline.k = "string"
  \/ b.fullName.k = "undefined" \/ b.fullName.s = ""
  \/ b.mobileNumber.k = "undefined" \/ b.mobileNumber.s = ""

C10_BadVerification(b) ==
  \/ b.grievanceId.k = "undefined"
  \/ b.verificationType.s \notin {"verify", "dispute"}
  \/ b.status.s \notin {"verified", "disputed"}

C10_InvalidInputRejected ==
  [][(last'.code # 400 \/ db' # db)
     => /\ last'.op = "create"
           => \A b \in CreateBodies : ~(C10_BadCreate(b) /\ Create(b))
        /\ last'.op = "recordVerification"
           => \A b \in VerificationBodies :
                ~(C10_BadVerification(b) /\ RecordVerification(b))]_vars

C10_Witness ==
  /\ last.op = "create" /\ last.code = 400
  /\ served = 1
  /\ grievances = <<>> /\ users = <<>> /\ verifications = <<>>

(* C11: every created grievance (201) starts with status pending and with *)
(* assignedTo, resolvedAt and verificationDeadline unset, whatever        *)
(* status, assignedTo, resolvedAt or verificationDeadline the request     *)
(* body carried.                                                          *)
C11_CreatedPending ==
  [][(last'.op = "create" /\ last'.code = 201)
     => LET g == grievances'[Len(grievances')]
        IN /\ Len(grievances') = Len(grievances) + 1
           /\ last'.body = Some(g)
           /\ g.status = "pending"
           /\ g.assignedTo = Null
           /\ g.resolvedAt = Null
           /\ g.verificationDeadline = Null]_vars

C11_Witness ==
  /\ last.op = "create" /\ last.code = 201
  /\ last.body[1].status = "pending"
  /\ last.body[1].assignedTo = Null
  /\ Len(grievances) = 2
  /\ grievances[2] = last.body[1]

(* C12: listAssignable answers with exactly the grievances whose status   *)
(* is pending or in_progress, in the order of the full list, and with no  *)
(* grievance of another status.                                           *)
C12_Assignable == {i \in Ids : StatusOf(i) \in {"pending", "in_progress"}}
C12_Rank(i) == Cardinality({j \in C12_Assignable : j <= i})

C12_AssignedList ==
  last.op = "listAssigned"
  => /\ last.code = 200
     /\ Len(last.body[1]) = Cardinality(C12_Assignable)
     /\ \A i \in C12_Assignable : last.body[1][C12_Rank(i)] = grievances[i]

C12_Witness ==
  /\ last.op = "listAssigned"
  /\ Len(grievances) = 2
  /\ StatusOf(1) = "pending_verification"
  /\ StatusOf(2) = "in_progress"
  /\ last.body[1] = <<grievances[2]>>

(* C13: verifications are append-only: no request removes or changes an   *)
(* existing verification, and no request removes a grievance.             *)
C13_AppendOnly ==
  [][/\ Len(verifications') >= Len(verifications)
     /\ \A k \in 1..Len(verifications) : verifications'[k] = verifications[k]
     /\ Len(grievances') >= Len(grievances)]_vars

C13_Witness ==
  /\ Len(verifications) = 2
  /\ verifications[1].grievanceId = verifications[2].grievanceId
  /\ verifications[1].verificationType = "verify"
  /\ verifications[1].status = "verified"
  /\ verifications[2].verificationType = "dispute"
  /\ verifications[2].status = "disputed"
  /\ StatusOf(verifications[2].grievanceId) = "in_progress"

(* C15: a request that ends in 500 leaves none of its mutations behind:   *)
(* users, grievances and verifications are as they were before it.        *)
C15_NoPartialFailure ==
  [][last'.code = 500 => UNCHANGED db]_vars

(* C16: a (dispute, disputed) verification re-opens the grievance by      *)
(* changing only its status to in_progress: assignedTo, resolutionTimeline *)
(* and every other field keep their values.                               *)
C16_DisputeKeepsAssignment ==
  [][(/\ last'.op = "recordVerification" /\ last'.code = 201
      /\ last'.body[1].verificationType = "dispute"
      /\ last'.body[1].status = "disputed")
     => LET i == last'.body[1].grievanceId
        IN /\ i \in Ids
           /\ grievances'[i].status = "in_progress"
           /\ grievances'[i].assignedTo = grievances[i].assignedTo
           /\ grievances'[i].resolutionTimeline = grievances[i].resolutionTimeline
           /\ [grievances'[i] EXCEPT !.status = grievances[i].status]
                = grievances[i]]_vars

C16_Witness ==
  /\ last.op = "recordVerification" /\ last.code = 201
  /\ last.body[1].verificationType = "dispute"
  /\ last.body[1].status = "disputed"
  /\ StatusOf(last.body[1].grievanceId) = "in_progress"
  /\ grievances[last.body[1].grievanceId].assignedTo # Null
  /\ grievances[last.body[1].grievanceId].resolutionTimeline = Some(7)
  /\ grievances[last.body[1].grievanceId].resolvedAt # Null

(* C17: a grievance whose status is resolved has a persisted              *)
(* (verify, verified) verification; updateStatus alone never stores       *)
(* resolved.                                                              *)
C17_ResolvedHasVerification ==
  \A i \in Ids :
    StatusOf(i) = "resolved" => HasVerification(i, "verify", "verified")

C17_Witness ==
  \E i \in Ids :
    /\ StatusOf(i) = "resolved"
    /\ grievances[i].resolvedAt # Null
    /\ HasVerification(i, "verify", "verified")

(* C18: every grievance whose status is pending_verification has          *)
(* resolvedAt and verificationDeadline set.                               *)
C18_PendingVerificationStamped ==
  \A i \in Ids :
    StatusOf(i) = "pending_verification"
    => (grievances[i].resolvedAt # Null /\ grievances[i].verificationDeadline # Null)

(* C20: an accept request answered 404 leaves users, grievances and       *)
(* verifications as they were.                                            *)
C20_NotFoundChangesNothing ==
  [][(last'.op = "accept" /\ last'.code = 404) => UNCHANGED db]_vars

(* C14: two verifications of one grievance whose storage calls interleave *)
(* can leave a status that is not the outcome of the last persisted       *)
(* verification, a state no serial execution produces: when no request    *)
(* ever started while another was suspended, and the one grievance has    *)
(* seen nothing but decisive verifications, its status is the outcome of  *)
(* the last verification row (pending when there is none).                *)
C14_OnlyVerifications ==
  /\ inflight = <<>>
  /\ Len(grievances) = 1
  /\ served = 1 + Len(verifications)

C14_StatusOfLast ==
  IF verifications = <<>> THEN "pending"
  ELSE IF verifications[Len(verifications)].verificationType = "verify"
       THEN "resolved" ELSE "in_progress"

C14_SerialMatchesLast ==
  (C14_OnlyVerifications /\ ~overlapped) => StatusOf(1) = C14_StatusOfLast

C14_Witness ==
  /\ C14_OnlyVerifications /\ overlapped
  /\ Len(verifications) = 2
  /\ verifications[1].verificationType = "verify"
  /\ verifications[2].verificationType = "dispute"
  /\ StatusOf(1) = "resolved"

(* C19: a request that found no default user inserts it successfully:     *)
(* the insert of storage.createUser never hits an existing username, so   *)
(* the user is added and the request goes on instead of ending in 500.    *)
C19_ValidTarget(r) ==
  /\ GrievanceExists(grievances, r.id)
  /\ r.op = "accept" => IsInteger(r.b.resolutionTimeline)

C19_DefaultUserRaceFree ==
  [][\A k \in 1..Len(inflight) :
       (/\ inflight[k].pc = "createUser" /\ C19_ValidTarget(inflight[k])
        /\ StepCreateUser(k))
       => /\ Len(users') = Len(users) + 1
          /\ Len(inflight') = Len(inflight)]_vars
====
